---- MODULE Spec2Model ----
(***************************************************************************)
(* Model of auto-audit-pro: the status-lifecycle / eligibility engine of   *)
(* AnalysisView and InspectionForm, the App shell that holds the active    *)
(* case, and the persistence gateway (remote-only gateway of               *)
(* src/services/storageService.ts and the dual local/remote gateway with   *)
(* its local-to-cloud sync).                                               *)
(***************************************************************************)
EXTENDS Integers, Sequences, FiniteSets, TLC

VARIABLES
    gateway,         \* which gateway the build links and whether supabase is configured
    currentYear,     \* new Date().getFullYear()
    now,             \* Date.now(), a logical clock
    localCases,      \* localStorage['auto_audit_cases'] (a JSON array)
    remoteCases,     \* rows of the remote table inspection_cases
    activeCase,      \* App state activeCase (NoCase = null)
    currentAnalysis, \* App state currentAnalysis (NoText = null), the text shown
    currentView,     \* App state currentView
    isLoading,       \* App state isLoading
    analyzing,       \* handleAnalyze calls suspended at an await
    inflight,        \* handleStatusChange calls suspended at `await saveCase`
    createdStatus,   \* history variable: the status each case id was created with
    accepted,        \* history variable: per case id, the status-change requests that
                     \* passed the guards
    ev,              \* history variable: "statusNoop" / "statusRejected" after a request
                     \* that returned early, "statusSaveFailed" after a save that
                     \* failed, "analyzeFailed" after an analysis that threw, "other"
                     \* after any other step
    evalIn,          \* eligibility evaluation: the input (target, year, kilometres)
    evalOut,         \* eligibility evaluation: the two checks' results
    localStore,      \* localStorage: appraisers, technicians, standards, brand
    remoteStore,     \* remote tables: appraisers, technicians, standards, settings
    sync,            \* syncLocalToCloud: position, count, result
    call,            \* the last call of a gateway operation and what its caller got
    intake,          \* InspectionForm state: data.program, vehicle.year, vehicle.kilometres
    admin,           \* AdminView state: isProcessing and the upload in progress
    profiling        \* technician profiles: the cases given and the profiles computed

appVars == <<gateway, currentYear, now, localCases, remoteCases, activeCase,
             currentAnalysis, currentView, isLoading, analyzing, inflight,
             createdStatus, accepted, ev>>
evalVars == <<evalIn, evalOut>>
syncVars == <<localStore, remoteStore, sync>>
vars == <<appVars, evalVars, syncVars, call, intake, admin, profiling>>

----------------------------------------------------------------------------
(* Bounds of the model *)

MaxCases == 1      \* cases stored when the app opens
MaxRequests == 2   \* status-change requests that pass handleStatusChange's guards

\* the ids of the cases: the stored ones and the one handleAnalyze may add
CaseIds == 1..(MaxCases + 1)

----------------------------------------------------------------------------
(* JavaScript numbers as far as the code uses them: a number, NaN, or the  *)
(* null that JSON.stringify writes for NaN.                                *)

JNum(n) == [k |-> "num", v |-> n]
JNaN == [k |-> "nan", v |-> 0]
JNull == [k |-> "null", v |-> 0]

\* a - b: NaN if either operand is NaN; null converts to 0
JSub(a, b) == IF a.k = "nan" \/ b.k = "nan" THEN JNaN ELSE JNum(a.v - b.v)

\* a > n for a numeric literal n: false whenever a is NaN
JGt(a, n) == a.k # "nan" /\ a.v > n

\* JSON.parse(JSON.stringify(x)) of a number: NaN is written as null
JsonNumber(x) == IF x.k = "nan" THEN JNull ELSE x

----------------------------------------------------------------------------
(* types.ts *)

PostReviewStatus == {"HCUV", "HAPO", "Certified", "Wholesale", "As-Is Retail"}
InventoryProgram == {"HCUV", "HAPO", "Certified"}

\* analysis texts are numbered by the case they were generated for; 0 is null
NoText == 0
NoCase == [id |-> 0, timestamp |-> 0, mode |-> "null",
           vehicle |-> [year |-> JNull, kilometres |-> JNull], data |-> [program |-> "null"],
           analysis |-> NoText, detectedTotal |-> JNull,
           currentStatus |-> "null", statusHistory |-> <<>>]

----------------------------------------------------------------------------
(* AnalysisView: eligibility and classification *)

\* mutant of checkEligibility: the age limits are inclusive
checkEligibility_AgeInclusive(status, year, vehicle) ==
    LET age == JSub(JNum(year), vehicle.year)
        kms == vehicle.kilometres
    IN  IF status = "HCUV" /\ JGt(age, 5) THEN [ok |-> FALSE, reason |-> "Age > 6yr"]
        ELSE IF status = "HCUV" /\ JGt(kms, 120000) THEN [ok |-> FALSE, reason |-> "KM > 120k"]
        ELSE IF status = "HAPO" /\ JGt(age, 9) THEN [ok |-> FALSE, reason |-> "Age > 10yr"]
        ELSE IF status = "HAPO" /\ JGt(kms, 200000) THEN [ok |-> FALSE, reason |-> "KM > 200k"]
        ELSE [ok |-> TRUE, reason |-> "undefined"]

\* mutant of checkEligibility: the odometer is checked before the age
checkEligibility_OdometerFirst(status, year, vehicle) ==
    LET age == JSub(JNum(year), vehicle.year)
        kms == vehicle.kilometres
    IN  IF status = "HCUV" /\ JGt(kms, 120000) THEN [ok |-> FALSE, reason |-> "KM > 120k"]
        ELSE IF status = "HCUV" /\ JGt(age, 6) THEN [ok |-> FALSE, reason |-> "Age > 6yr"]
        ELSE IF status = "HAPO" /\ JGt(kms, 200000) THEN [ok |-> FALSE, reason |-> "KM > 200k"]
        ELSE IF status = "HAPO" /\ JGt(age, 10) THEN [ok |-> FALSE, reason |-> "Age > 10yr"]
        ELSE [ok |-> TRUE, reason |-> "undefined"]

\* checkEligibility of AnalysisView, for caseData's vehicle
checkEligibility(status, year, vehicle) ==
    LET age == JSub(JNum(year), vehicle.year)
        kms == vehicle.kilometres
    IN  IF status = "HCUV" /\ JGt(age, 6) THEN [ok |-> FALSE, reason |-> "Age > 6yr"]
        ELSE IF status = "HCUV" /\ JGt(kms, 120000) THEN [ok |-> FALSE, reason |-> "KM > 120k"]
        ELSE IF status = "HAPO" /\ JGt(age, 10) THEN [ok |-> FALSE, reason |-> "Age > 10yr"]
        ELSE IF status = "HAPO" /\ JGt(kms, 200000) THEN [ok |-> FALSE, reason |-> "KM > 200k"]
        ELSE [ok |-> TRUE, reason |-> "undefined"]

\* mutant of hierarchy: As-Is Retail and Wholesale exchanged
hierarchy_WholesaleAboveAsIs(s) ==
    CASE s = "HCUV" -> 4
      [] s = "HAPO" -> 3
      [] s = "Certified" -> 2
      [] s = "As-Is Retail" -> 0
      [] s = "Wholesale" -> 1

hierarchy(s) ==
    CASE s = "HCUV" -> 4
      [] s = "HAPO" -> 3
      [] s = "Certified" -> 2
      [] s = "As-Is Retail" -> 1
      [] s = "Wholesale" -> 0

determineMoveType(from, to) ==
    LET diff == hierarchy(to) - hierarchy(from)
    IN  IF diff > 0 THEN "Upgrade"
        ELSE IF diff < 0 THEN "Downgrade"
        ELSE "Lateral"

\* mutant of UpdatedCase: the entry is appended, currentStatus is not set
UpdatedCase_StatusNotSet(caseData, newStatus, t) ==
    LET entry == [from |-> caseData.currentStatus, to |-> newStatus, timestamp |-> t,
                  type |-> determineMoveType(caseData.currentStatus, newStatus)]
    IN  [caseData EXCEPT !.statusHistory = Append(caseData.statusHistory, entry)]

\* mutant of UpdatedCase: the case's timestamp is set to the entry's
UpdatedCase_Restamped(caseData, newStatus, t) ==
    LET entry == [from |-> caseData.currentStatus, to |-> newStatus, timestamp |-> t,
                  type |-> determineMoveType(caseData.currentStatus, newStatus)]
    IN  [caseData EXCEPT !.currentStatus = newStatus, !.timestamp = t + 1,
                         !.statusHistory = Append(caseData.statusHistory, entry)]

\* the entry and the updated case handleStatusChange builds from caseData
UpdatedCase(caseData, newStatus, t) ==
    LET entry == [from |-> caseData.currentStatus, to |-> newStatus, timestamp |-> t,
                  type |-> determineMoveType(caseData.currentStatus, newStatus)]
    IN  [caseData EXCEPT !.currentStatus = newStatus,
                         !.statusHistory = Append(caseData.statusHistory, entry)]

----------------------------------------------------------------------------
(* InspectionForm: the intake form's eligibility check *)

FormCheckEligibility(prog, year, vehicle) ==
    LET age == JSub(JNum(year), vehicle.year)
        kms == vehicle.kilometres
    IN  IF prog = "HCUV" /\ JGt(age, 6) THEN [ok |-> FALSE, reason |-> "Age > 6yrs"]
        ELSE IF prog = "HCUV" /\ JGt(kms, 120000) THEN [ok |-> FALSE, reason |-> "KM > 120k"]
        ELSE IF prog = "HAPO" /\ JGt(age, 10) THEN [ok |-> FALSE, reason |-> "Age > 10yrs"]
        ELSE IF prog = "HAPO" /\ JGt(kms, 200000) THEN [ok |-> FALSE, reason |-> "KM > 200k"]
        ELSE [ok |-> TRUE, reason |-> "undefined"]

\* the program select offers only eligible programs and the auto-adjust effect
\* replaces an ineligible selection, so the submitted program passes the form's check
FormSelectable(prog, year, vehicle) == FormCheckEligibility(prog, year, vehicle).ok

----------------------------------------------------------------------------
(* Persistence gateway: cases *)

\* "remoteOnly": src/services/storageService.ts; "dualRemote" / "dualLocal": the
\* gateway with the local fallback, with and without remote credentials
Gateways == {"remoteOnly", "dualRemote", "dualLocal"}
IsRemote(gw) == gw # "dualLocal"

JsonVehicle(v) == [year |-> JsonNumber(v.year), kilometres |-> JsonNumber(v.kilometres)]

\* JSON.parse(JSON.stringify(c)) of a case
JsonCase(c) == [c EXCEPT !.vehicle = JsonVehicle(c.vehicle),
                         !.detectedTotal = JsonNumber(c.detectedTotal)]

\* new Date(ms).toISOString() and new Date(iso).getTime()
\* (the ISO text carries the whole seconds and the milliseconds; a stamp stored
\* as epoch milliseconds is read as it is)
toISOString(ms) == <<"iso", ms \div 1000, ms % 1000>>
getTime(stamp) == IF stamp[1] = "iso" THEN stamp[2] * 1000 + stamp[3] ELSE stamp[2]

\* the row saveCase upserts into inspection_cases
CaseRow(gw, c) ==
    [id |-> c.id,
     timestamp |-> IF gw = "remoteOnly" THEN <<"ms", c.timestamp>> ELSE toISOString(c.timestamp),
     mode |-> c.mode,
     vehicle |-> JsonVehicle(c.vehicle),
     data |-> c.data,
     analysis |-> c.analysis,
     detected_total |-> JsonNumber(c.detectedTotal),
     current_status |-> c.currentStatus,
     status_history |-> c.statusHistory]

\* the case getAllCases maps a row to
RowCase(row) ==
    [id |-> row.id, timestamp |-> getTime(row.timestamp), mode |-> row.mode,
     vehicle |-> row.vehicle, data |-> row.data, analysis |-> row.analysis,
     detectedTotal |-> row.detected_total, currentStatus |-> row.current_status,
     statusHistory |-> row.status_history]

\* upsert on the primary key id
UpsertCase(rows, row) == {r \in rows : r.id # row.id} \cup {row}

\* mutant of LocalSaveCase: the case is always put in front
LocalSaveCase_AlwaysUnshift(cases, newCase) == <<JsonCase(newCase)>> \o cases

\* local saveCase: findIndex by id, replace in place or unshift, then setLocal
LocalSaveCase(cases, newCase) ==
    LET hits == {i \in 1..Len(cases) : cases[i].id = newCase.id}
    IN  IF hits # {}
        THEN LET existingIndex == CHOOSE i \in hits : \A j \in hits : i <= j
             IN  [i \in 1..Len(cases) |->
                     JsonCase(IF i = existingIndex THEN newCase ELSE cases[i])]
        ELSE <<JsonCase(newCase)>> \o cases

\* rows ordered by timestamp, descending
RECURSIVE OrderDesc(_)
OrderDesc(rows) ==
    IF rows = {} THEN <<>>
    ELSE LET top == CHOOSE r \in rows : \A q \in rows : getTime(q.timestamp) <= getTime(r.timestamp)
         IN  <<top>> \o OrderDesc(rows \ {top})

\* getAllCases when the read succeeds
getAllCases(gw, local, remote) ==
    IF IsRemote(gw)
    THEN LET ordered == OrderDesc(remote)
         IN  [i \in 1..Len(ordered) |-> RowCase(ordered[i])]
    ELSE local

----------------------------------------------------------------------------
(* The App shell, the Dashboard and the AnalysisView as a state machine *)

CalendarYears == {2026}

\* what the intake form submits: a vehicle eligible for every program entered as
\* HCUV, and a vehicle too old for HCUV entered as HAPO
FormInputs ==
    { <<[year |-> JNum(2023), kilometres |-> JNum(50000)], "HCUV">>,
      <<[year |-> JNum(2019), kilometres |-> JNum(50000)], "HAPO">> }

Views == {"dashboard", "audit", "admin"}

\* the admin view offers no operation on cases: for the case lifecycle it behaves
\* as the audit form does
LifecycleViews == {"dashboard", "audit"}

Idle == [pc |-> "idle", vehicle |-> NoCase.vehicle, program |-> "null", case |-> NoCase]
NoEvent == "other"

\* renderContent: the AnalysisView replaces the current view while an analysis is set
AnalysisShown == currentAnalysis # NoText
FormShown == ~AnalysisShown /\ currentView = "audit"
DashboardShown == ~AnalysisShown /\ currentView = "dashboard"

\* localStorage and the remote tables other than the cases, before anything is stored
EmptyLocal == [brand |-> "null", appraisers |-> <<>>, technicians |-> <<>>, standards |-> <<>>]
EmptyRemote == [settings |-> "null", appraisers |-> {}, technicians |-> {}, standards |-> {}]
SyncIdle == [pc |-> "idle", todo |-> <<>>, count |-> 0, success |-> FALSE, runs |-> 0,
             transportFailed |-> FALSE, written |-> <<>>]

\* no gateway operation has been called
NoCall == [op |-> "none", arg |-> 0, fault |-> "none", outcome |-> "returned", result |-> <<>>,
           alerted |-> FALSE, n |-> 0]

\* no technician profiles have been computed
NotProfiled == [cases |-> <<>>, done |-> FALSE, out |-> <<>>]

\* the AdminView with no upload in progress
AdminIdle == [isProcessing |-> FALSE, uploading |-> "none", digest |-> "none"]

\* the intake form is not mounted
IntakeIdle == [program |-> "null", year |-> JNull, kilometres |-> JNull,
               make |-> "", model |-> "", before |-> "null", step |-> "unmounted",
               decoded |-> "none"]

EvalIdle == [target |-> "null", year |-> JNull, kilometres |-> JNull]
EvalNone == [done |-> FALSE, view |-> [ok |-> TRUE, reason |-> "undefined"],
             form |-> [ok |-> TRUE, reason |-> "undefined"]]

\* no status-change request has passed the guards
NoneAccepted == [i \in CaseIds |-> 0]

\* the requests that passed the guards, over the cases 1..n
RECURSIVE AcceptedTotal(_)
AcceptedTotal(n) == IF n = 0 THEN 0 ELSE accepted[n] + AcceptedTotal(n - 1)

AppInit ==
    /\ gateway \in Gateways
    /\ currentYear \in CalendarYears
    /\ now = 1
    /\ localCases = <<>>
    /\ remoteCases = {}
    /\ activeCase = NoCase
    /\ currentAnalysis = NoText
    /\ currentView = "dashboard"
    /\ isLoading = FALSE
    /\ analyzing = Idle
    /\ inflight = {}
    /\ createdStatus = [i \in CaseIds |-> "null"]
    /\ accepted = NoneAccepted
    /\ ev = NoEvent

\* Header onNavigate
Navigate(view) ==
    /\ currentView' = view
    /\ currentAnalysis' = NoText
    /\ activeCase' = NoCase
    /\ ev' = NoEvent
    /\ UNCHANGED <<evalVars, call, intake, admin, profiling, syncVars, gateway, currentYear, now, localCases, remoteCases, isLoading,
                   analyzing, inflight, createdStatus, accepted>>

\* The Dashboard's mount effect reads getAllCases (an empty list when the remote
\* read fails) and a click on row i calls handleSelectCase with that row's case.
\* The list is read at the click: a list gone stale between the mount and the
\* click is not kept as state.
HandleSelectCase(i) ==
    /\ DashboardShown
    /\ LET cases == getAllCases(gateway, localCases, remoteCases)
       IN  /\ i \in 1..Len(cases)
           /\ activeCase' = cases[i]
           /\ currentAnalysis' = cases[i].analysis
    /\ ev' = NoEvent
    /\ UNCHANGED <<evalVars, call, intake, admin, profiling, syncVars, gateway, currentYear, now, localCases, remoteCases, currentView,
                   isLoading, analyzing, inflight, createdStatus, accepted>>

\* mutant of AnalyzeFailed: no finally block, the loading flag stays set
AnalyzeFailed_StillLoading ==
    /\ analyzing.pc = "ai"
    /\ isLoading' = isLoading
    /\ analyzing' = Idle
    /\ ev' = "analyzeFailed"
    /\ UNCHANGED <<evalVars, call, intake, admin, profiling, syncVars, gateway, currentYear, now, localCases, remoteCases, activeCase,
                   currentAnalysis, currentView, inflight, createdStatus, accepted>>

\* AnalysisView onReset
OnReset ==
    /\ AnalysisShown
    /\ currentAnalysis' = NoText
    /\ currentView' = IF activeCase # NoCase THEN "audit" ELSE currentView
    /\ ev' = NoEvent
    /\ UNCHANGED <<evalVars, call, intake, admin, profiling, syncVars, gateway, currentYear, now, localCases, remoteCases, activeCase,
                   isLoading, analyzing, inflight, createdStatus, accepted>>

\* handleAnalyze up to its first await: the submit button is disabled while loading
StartAnalyze(vehicle, program) ==
    /\ FormShown
    /\ ~isLoading
    /\ analyzing.pc = "idle"
    /\ now \in CaseIds
    /\ FormSelectable(program, currentYear, vehicle)
    /\ isLoading' = TRUE
    /\ analyzing' = [Idle EXCEPT !.pc = "ai", !.vehicle = vehicle, !.program = program]
    /\ ev' = NoEvent
    /\ UNCHANGED <<evalVars, call, intake, admin, profiling, syncVars, gateway, currentYear, now, localCases, remoteCases, activeCase,
                   currentAnalysis, currentView, inflight, createdStatus, accepted>>

\* analyzeInspection throws: catch (alert) and finally
AnalyzeFailed ==
    /\ analyzing.pc = "ai"
    /\ isLoading' = FALSE
    /\ analyzing' = Idle
    /\ ev' = "analyzeFailed"
    /\ UNCHANGED <<evalVars, call, intake, admin, profiling, syncVars, gateway, currentYear, now, localCases, remoteCases, activeCase,
                   currentAnalysis, currentView, inflight, createdStatus, accepted>>

\* the total analyzeInspection reads from the [DETECTED_TOTAL: ...] tag of the text
DetectedTotal(text) == JNum(1000 + text)

\* the case handleAnalyze builds from the form's input and the AI result
NewCase(id, t, vehicle, program, text) ==
    [id |-> id, timestamp |-> t, mode |-> "Audit Mode", vehicle |-> vehicle,
     data |-> [program |-> program], analysis |-> text, detectedTotal |-> DetectedTotal(text),
     currentStatus |-> program, statusHistory |-> <<>>]

\* analyzeInspection returns: the analysis and the new case are shown, saveCase is
\* called; the local gateway's save completes within the call (a write that raises
\* is swallowed by setLocal)
AnalyzeReturned ==
    /\ analyzing.pc = "ai"
    /\ LET newCase == NewCase(now, now, analyzing.vehicle, analyzing.program, now)
       IN  /\ currentAnalysis' = newCase.analysis
           /\ activeCase' = newCase
           /\ createdStatus' = [createdStatus EXCEPT ![newCase.id] = newCase.currentStatus]
           /\ IF IsRemote(gateway)
              THEN /\ analyzing' = [analyzing EXCEPT !.pc = "save", !.case = newCase]
                   /\ UNCHANGED <<localCases, isLoading>>
              ELSE /\ \E written \in BOOLEAN :
                        localCases' = IF written THEN LocalSaveCase(localCases, newCase)
                                      ELSE localCases
                   /\ analyzing' = Idle
                   /\ isLoading' = FALSE
    /\ now' = now + 1
    /\ ev' = NoEvent
    /\ UNCHANGED <<evalVars, call, intake, admin, profiling, syncVars, gateway, currentYear, remoteCases, currentView, inflight, accepted>>

\* the remote store applies, or rejects, the upsert of the new case
AnalyzeSaveServer(ok) ==
    /\ analyzing.pc = "save"
    /\ remoteCases' = IF ok THEN UpsertCase(remoteCases, CaseRow(gateway, analyzing.case))
                      ELSE remoteCases
    /\ analyzing' = [analyzing EXCEPT !.pc = IF ok THEN "saved" ELSE "failed"]
    /\ ev' = NoEvent
    /\ UNCHANGED <<evalVars, call, intake, admin, profiling, syncVars, gateway, currentYear, now, localCases, activeCase, currentAnalysis,
                   currentView, isLoading, inflight, createdStatus, accepted>>

\* handleAnalyze resumes after `await saveCase`: an error is thrown into the catch
\* (or only logged by the remote-only gateway); finally clears the loading flag
AnalyzeSaveReturned ==
    /\ analyzing.pc \in {"saved", "failed"}
    /\ isLoading' = FALSE
    /\ analyzing' = Idle
    /\ ev' = NoEvent
    /\ UNCHANGED <<evalVars, call, intake, admin, profiling, syncVars, gateway, currentYear, now, localCases, remoteCases, activeCase,
                   currentAnalysis, currentView, inflight, createdStatus, accepted>>

\* handleUpdateCase
handleUpdateCase(updated) == activeCase' = updated

\* mutant of ReturnsEarly: the same-status test is missing
ReturnsEarly_NullOnly(caseData, newStatus) == caseData = NoCase

\* handleStatusChange's first guard: no case, or the status the case already has
ReturnsEarly(caseData, newStatus) ==
    caseData = NoCase \/ newStatus = caseData.currentStatus

\* mutant of RejectsIneligible: the result of the check is ignored
RejectsIneligible_Never(caseData, newStatus, year) == FALSE

\* handleStatusChange's second guard: the eligibility check fails (alert, return)
RejectsIneligible(caseData, newStatus, year) ==
    ~checkEligibility(newStatus, year, caseData.vehicle).ok

\* handleStatusChange up to `await saveCase(updatedCase)`; with the local gateway
\* saveCase completes within the call and the handler runs on to onUpdateCase
HandleStatusChange(newStatus) ==
    /\ AnalysisShown
    /\ LET caseData == activeCase
       IN  IF ReturnsEarly(caseData, newStatus)
           THEN /\ ev' = "statusNoop"
                /\ UNCHANGED <<localCases, activeCase, inflight, accepted>>
           ELSE IF RejectsIneligible(caseData, newStatus, currentYear)
           THEN /\ ev' = "statusRejected"
                /\ UNCHANGED <<localCases, activeCase, inflight, accepted>>
           ELSE LET updatedCase == UpdatedCase(caseData, newStatus, now)
                IN  /\ AcceptedTotal(MaxCases + 1) < MaxRequests
                    /\ accepted' = [accepted EXCEPT ![caseData.id] = @ + 1]
                    /\ IF IsRemote(gateway)
                       THEN /\ inflight' = inflight \cup {[case |-> updatedCase, phase |-> "sent"]}
                            /\ ev' = NoEvent
                            /\ UNCHANGED <<localCases, activeCase>>
                       ELSE /\ \E written \in BOOLEAN :
                                 /\ localCases' = IF written
                                                  THEN LocalSaveCase(localCases, updatedCase)
                                                  ELSE localCases
                                 /\ ev' = IF written THEN NoEvent ELSE "statusSaveFailed"
                            /\ handleUpdateCase(updatedCase)
                            /\ UNCHANGED inflight
    /\ UNCHANGED <<evalVars, call, intake, admin, profiling, syncVars, gateway, currentYear, now, remoteCases, currentAnalysis, currentView,
                   isLoading, analyzing, createdStatus>>

\* the remote store applies the upsert of a pending status change
StatusSaveApplied(req) ==
    /\ req \in inflight
    /\ req.phase = "sent"
    /\ remoteCases' = UpsertCase(remoteCases, CaseRow(gateway, req.case))
    /\ inflight' = (inflight \ {req}) \cup {[req EXCEPT !.phase = "ok"]}
    /\ ev' = NoEvent
    /\ UNCHANGED <<evalVars, call, intake, admin, profiling, syncVars, gateway, currentYear, now, localCases, activeCase, currentAnalysis,
                   currentView, isLoading, analyzing, createdStatus, accepted>>

\* saveCase's result: the dual gateway throws the error, the remote-only gateway logs it
saveCaseThrows(gw, error) == gw = "dualRemote" /\ error

\* handleStatusChange resumes after `await saveCase(updatedCase)`: with the response
\* to an applied upsert, or with the error of an upsert the store did not apply
StatusSaveReturned(req, error) ==
    /\ req \in inflight
    /\ req.phase = IF error THEN "sent" ELSE "ok"
    /\ inflight' = inflight \ {req}
    /\ IF saveCaseThrows(gateway, error)
       THEN UNCHANGED activeCase
       ELSE handleUpdateCase(req.case)
    /\ ev' = IF error THEN "statusSaveFailed" ELSE NoEvent
    /\ UNCHANGED <<evalVars, call, intake, admin, profiling, syncVars, gateway, currentYear, now, localCases, remoteCases, currentAnalysis,
                   currentView, isLoading, analyzing, createdStatus, accepted>>

\* the stores after earlier sessions created the cases 1..n through handleAnalyze
\* the submissions the stored cases came from: either vehicle for the first case,
\* the vehicle eligible for every program for the later ones
SeedInputs(n) ==
    IF n = 1 THEN FormInputs
    ELSE {x \in FormInputs : x[2] = "HCUV"}

RECURSIVE SeedStores(_, _, _)
SeedStores(gw, year, n) ==
    IF n = 0 THEN {[local |-> <<>>, remote |-> {}, created |-> [i \in CaseIds |-> "null"]]}
    ELSE { [local |-> IF IsRemote(gw) THEN st.local ELSE LocalSaveCase(st.local, c),
            remote |-> IF IsRemote(gw) THEN UpsertCase(st.remote, CaseRow(gw, c)) ELSE st.remote,
            created |-> [st.created EXCEPT ![n] = c.currentStatus]] :
           st \in SeedStores(gw, year, n - 1),
           c \in { NewCase(n, n, in[1], in[2], n) :
                     in \in {x \in SeedInputs(n) : FormSelectable(x[2], year, x[1])} } }

\* the app opens on the Dashboard over a store that holds the cases created so far
Init ==
    /\ gateway \in Gateways
    /\ currentYear \in CalendarYears
    /\ now = MaxCases + 1
    /\ \E st \in SeedStores(gateway, currentYear, MaxCases) :
          /\ localCases = st.local
          /\ remoteCases = st.remote
          /\ createdStatus = st.created
    /\ activeCase = NoCase
    /\ currentAnalysis = NoText
    /\ currentView = "dashboard"
    /\ isLoading = FALSE
    /\ analyzing = Idle
    /\ inflight = {}
    /\ accepted = NoneAccepted
    /\ ev = NoEvent
    /\ evalIn = EvalIdle
    /\ evalOut = EvalNone
    /\ localStore = EmptyLocal
    /\ remoteStore = EmptyRemote
    /\ sync = SyncIdle
    /\ call = NoCall
    /\ admin = AdminIdle
    /\ profiling = NotProfiled
    /\ intake = IntakeIdle

Next ==
    \/ \E view \in LifecycleViews : Navigate(view)
    \/ \E i \in 1..MaxCases : HandleSelectCase(i)
    \/ OnReset
    \/ \E newStatus \in PostReviewStatus : HandleStatusChange(newStatus)
    \/ \E req \in inflight : StatusSaveApplied(req)
    \/ \E req \in inflight, error \in BOOLEAN : StatusSaveReturned(req, error)

Spec == Init /\ [][Next]_vars

----------------------------------------------------------------------------
(* Properties of the status lifecycle *)

\* every case the app holds: the active case, the cases of pending saves, and
\* the cases persisted in either store
PersistedCases ==
    {localCases[i] : i \in 1..Len(localCases)} \cup {RowCase(r) : r \in remoteCases}
MemoryCases == ({activeCase} \ {NoCase}) \cup {req.case : req \in inflight}
AllCases == MemoryCases \cup PersistedCases

IsPrefix(h, g) == Len(h) <= Len(g) /\ \A i \in 1..Len(h) : g[i] = h[i]

CaseUntouched ==
    /\ activeCase' = activeCase
    /\ localCases' = localCases
    /\ remoteCases' = remoteCases
    /\ inflight' = inflight

\* C1: a status-change request whose status fails the eligibility check for the
\* case's vehicle leaves the active case and both stores as they were and issues
\* no save.
C1_IneligibleLeavesCaseUnmodified ==
    [][\A s \in PostReviewStatus :
          (/\ HandleStatusChange(s)
           /\ activeCase # NoCase
           /\ ~checkEligibility(s, currentYear, activeCase.vehicle).ok)
          => CaseUntouched]_vars

\* C1 witness: a request for HCUV was just rejected for a case whose vehicle is
\* too old for it
C1_Witness ==
    /\ ev = "statusRejected"
    /\ activeCase # NoCase
    /\ ~checkEligibility("HCUV", currentYear, activeCase.vehicle).ok
    /\ activeCase.currentStatus # "HCUV"

\* C2 (as claimed): whenever the save of the updated case fails, the active case
\* is not transitioned: it keeps its prior currentStatus and statusHistory.
C2_FailedSaveNotTransitioned ==
    [][ev' = "statusSaveFailed" => activeCase' = activeCase]_vars

\* C3: for every case, in memory and persisted, currentStatus is the `to` of the
\* last history entry, or the status the case was created with when the history
\* is empty.
C3_StatusMatchesHistory ==
    \A c \in AllCases :
        LET h == c.statusHistory
        IN  c.currentStatus = IF Len(h) = 0 THEN createdStatus[c.id] ELSE h[Len(h)].to

\* C3 witness: a persisted case with two history entries, whose status differs
\* from the one it was created with
C3_Witness ==
    \E c \in PersistedCases :
        /\ Len(c.statusHistory) = 2
        /\ c.currentStatus # createdStatus[c.id]
        /\ activeCase = c

\* C4 (as claimed): every write of a case to a store carries a statusHistory that
\* extends the statusHistory persisted before it.
C4_PersistedHistoryAppendOnly ==
    [][\A old \in PersistedCases :
          \A new \in {c \in PersistedCases' : c.id = old.id} :
              IsPrefix(old.statusHistory, new.statusHistory)]_vars

\* C5: a request for the status the case already has leaves the case and the
\* stores as they were and issues no save.
C5_SameStatusIsNoOp ==
    [][\A s \in PostReviewStatus :
          (/\ HandleStatusChange(s)
           /\ activeCase # NoCase
           /\ s = activeCase.currentStatus)
          => CaseUntouched]_vars

\* C5 witness: a same-status request was just handled for a case that already
\* has a history
C5_Witness ==
    /\ ev = "statusNoop"
    /\ activeCase # NoCase
    /\ Len(activeCase.statusHistory) > 0

\* the rank order of the lifecycle states, lowest first
RankOrder == <<"Wholesale", "As-Is Retail", "Certified", "HAPO", "HCUV">>
Rank(s) == CHOOSE i \in 1..Len(RankOrder) : RankOrder[i] = s

\* C9: every history entry is an Upgrade exactly when its `to` ranks above its
\* `from` and a Downgrade exactly when it ranks below; no entry has from = to or
\* type Lateral.
C9_EntriesClassifiedByRank ==
    \A c \in AllCases : \A i \in 1..Len(c.statusHistory) :
        LET e == c.statusHistory[i]
        IN  /\ e.from # e.to
            /\ e.type # "Lateral"
            /\ (e.type = "Upgrade") = (Rank(e.to) > Rank(e.from))
            /\ (e.type = "Downgrade") = (Rank(e.to) < Rank(e.from))

\* C9 witness: a persisted history that went HCUV -> Wholesale (Downgrade) and
\* back Wholesale -> HCUV (Upgrade)
C9_Witness ==
    \E c \in PersistedCases :
        /\ Len(c.statusHistory) = 2
        /\ c.statusHistory[1] = [from |-> "HCUV", to |-> "Wholesale",
                                  timestamp |-> c.statusHistory[1].timestamp,
                                  type |-> "Downgrade"]
        /\ c.statusHistory[2] = [from |-> "Wholesale", to |-> "HCUV",
                                  timestamp |-> c.statusHistory[2].timestamp,
                                  type |-> "Upgrade"]

----------------------------------------------------------------------------
(* The eligibility checks as pure functions: one evaluation of both checks on *)
(* an input drawn from the boundary values of the thresholds                  *)

EvalCalendarYears == {2026, 2027}
EvalModelYears ==
    {JNum(2015), JNum(2016), JNum(2019), JNum(2020), JNum(2021), JNum(2026), JNaN}
EvalKilometres ==
    {JNum(0), JNum(50000), JNum(120000), JNum(120001), JNum(200000), JNum(200001), JNaN}

\* the app at rest: nothing stored, nothing shown, nothing pending
AppAtRest ==
    /\ now = 1
    /\ localCases = <<>>
    /\ remoteCases = {}
    /\ activeCase = NoCase
    /\ currentAnalysis = NoText
    /\ currentView = "dashboard"
    /\ isLoading = FALSE
    /\ analyzing = Idle
    /\ inflight = {}
    /\ createdStatus = [i \in CaseIds |-> "null"]
    /\ accepted = NoneAccepted
    /\ ev = NoEvent

EvalInit ==
    /\ gateway = "dualLocal"
    /\ currentYear \in EvalCalendarYears
    /\ AppAtRest
    /\ evalIn \in [target : PostReviewStatus, year : EvalModelYears,
                    kilometres : EvalKilometres]
    /\ evalOut = EvalNone
    /\ localStore = EmptyLocal
    /\ remoteStore = EmptyRemote
    /\ sync = SyncIdle
    /\ call = NoCall
    /\ admin = AdminIdle
    /\ profiling = NotProfiled
    /\ intake = IntakeIdle

\* both components evaluate their check on the vehicle
Evaluate ==
    /\ ~evalOut.done
    /\ LET vehicle == [year |-> evalIn.year, kilometres |-> evalIn.kilometres]
       IN  evalOut' = [done |-> TRUE,
                       view |-> checkEligibility(evalIn.target, currentYear, vehicle),
                       form |-> FormCheckEligibility(evalIn.target, currentYear, vehicle)]
    /\ UNCHANGED <<appVars, evalIn, syncVars, call, intake, admin, profiling>>

EvalSpec == EvalInit /\ [][Evaluate]_vars

IsNumber(x) == x.k = "num"
EvalAge == currentYear - evalIn.year.v
EvalNumeric == evalOut.done /\ IsNumber(evalIn.year) /\ IsNumber(evalIn.kilometres)

\* the thresholds of the eligibility table
OverAge(target, age) ==
    (target = "HCUV" /\ age > 6) \/ (target = "HAPO" /\ age > 10)
OverOdometer(target, km) ==
    (target = "HCUV" /\ km > 120000) \/ (target = "HAPO" /\ km > 200000)

\* C6: on numeric input the check is not ok exactly when the target is HCUV and
\* age > 6 or odometer > 120000, or HAPO and age > 10 or odometer > 200000 (so
\* never for Certified, Wholesale, As-Is Retail); the intake form's check gives
\* the same verdict for the three programs the two share.
C6_VerdictMatchesThresholds ==
    EvalNumeric =>
        /\ evalOut.view.ok = ~(\/ OverAge(evalIn.target, EvalAge)
                               \/ OverOdometer(evalIn.target, evalIn.kilometres.v))
        /\ evalIn.target \in {"Certified", "Wholesale", "As-Is Retail"} => evalOut.view.ok
        /\ evalIn.target \in InventoryProgram => evalOut.form.ok = evalOut.view.ok

\* C6 witness: HCUV at exactly 6 years and 120000 km is accepted by both checks
C6_Witness ==
    /\ EvalNumeric
    /\ evalIn.target = "HCUV"
    /\ EvalAge = 6
    /\ evalIn.kilometres.v = 120000
    /\ evalOut.view.ok
    /\ evalOut.form.ok

AgeReasons == {"Age > 6yr", "Age > 10yr", "Age > 6yrs", "Age > 10yrs"}
OdometerReasons == {"KM > 120k", "KM > 200k"}

\* C7: whenever the age exceeds the target's maximum age both checks answer with
\* the age reason, also when the odometer limit is exceeded too; an odometer
\* reason is given only when the age limit is met.
C7_AgeReasonFirst ==
    EvalNumeric =>
        \A res \in {evalOut.view, evalOut.form} :
            /\ OverAge(evalIn.target, EvalAge) => ~res.ok /\ res.reason \in AgeReasons
            /\ res.reason \in OdometerReasons =>
                   /\ ~OverAge(evalIn.target, EvalAge)
                   /\ OverOdometer(evalIn.target, evalIn.kilometres.v)

\* C7 witness: HCUV, 7 years old and over 120000 km, is rejected for its age
C7_Witness ==
    /\ EvalNumeric
    /\ evalIn.target = "HCUV"
    /\ EvalAge = 7
    /\ evalIn.kilometres.v = 120001
    /\ evalOut.view = [ok |-> FALSE, reason |-> "Age > 6yr"]
    /\ evalOut.form = [ok |-> FALSE, reason |-> "Age > 6yrs"]

\* C8 (as claimed): when the model year or the odometer is not a number, neither
\* check returns ok for HCUV or HAPO.
C8_NotANumberRejected ==
    (/\ evalOut.done
     /\ evalIn.target \in {"HCUV", "HAPO"}
     /\ (evalIn.year = JNaN \/ evalIn.kilometres = JNaN))
    => (~evalOut.view.ok /\ ~evalOut.form.ok)

----------------------------------------------------------------------------
(* syncLocalToCloud of the dual gateway: the records of localStorage are      *)
(* replayed one awaited write at a time against the remote tables             *)

MaxAppraisers == 2    \* appraisers in localStorage
MaxTechnicians == 1   \* technicians in localStorage
MaxSyncRuns == 2      \* calls of syncLocalToCloud

StandardTypes == {"SAFETY"}

AppraiserOf(i) == [id |-> i, name |-> "appraiser"]
TechnicianOf(i) == [id |-> i, name |-> "technician", techNumber |-> "T"]
\* the rows the gateway writes for them
AppraiserRow(a) == [id |-> a.id, name |-> a.name]
TechnicianRow(t) == [id |-> t.id, name |-> t.name, tech_number |-> t.techNumber]
\* (the dual gateway sends no id: the table's default generates it, written 0 here)
StandardRow(doc) ==
    [id |-> 0, type |-> doc.type, file_name |-> doc.fileName,
     extracted_rules |-> doc.extractedRules]

\* insert: the primary key id rejects a row whose id is in the table
InsertFails(rows, row) == \E r \in rows : r.id = row.id
\* upsert with onConflict 'type'
UpsertStandard(rows, row) ==
    LET old == {r \in rows : r.type = row.type}
    IN  (rows \ old) \cup {[row EXCEPT !.id = IF old = {} THEN 0 ELSE (CHOOSE r \in old : TRUE).id]}

RECURSIVE SeedLocalCases(_)
SeedLocalCases(n) ==
    IF n = 0 THEN <<>>
    ELSE LocalSaveCase(SeedLocalCases(n - 1),
                       NewCase(n, n, [year |-> JNum(2023), kilometres |-> JNum(50000)],
                               "Certified", n))

\* the work list of syncLocalToCloud, in the order of its loops
SyncTodo(local, cases) ==
    (IF local.brand # "null" THEN <<[kind |-> "brand", rec |-> local.brand]>> ELSE <<>>)
    \o [i \in 1..Len(local.appraisers) |-> [kind |-> "appraiser", rec |-> local.appraisers[i]]]
    \o [i \in 1..Len(local.technicians) |-> [kind |-> "technician", rec |-> local.technicians[i]]]
    \o [i \in 1..Len(local.standards) |-> [kind |-> "standard", rec |-> local.standards[i]]]
    \o [i \in 1..Len(cases) |-> [kind |-> "case", rec |-> cases[i]]]

\* localStorage holds what was stored while no credentials were configured; the
\* remote tables hold any of these records already, and the schema's initial brand
SyncInit ==
    /\ gateway \in {"dualRemote", "dualLocal"}
    /\ currentYear \in CalendarYears
    /\ now = MaxCases + 1
    /\ \E n \in 0..MaxCases : localCases = SeedLocalCases(n)
    /\ \E ids \in SUBSET (1..MaxCases) :
          remoteCases = {CaseRow("dualRemote", SeedLocalCases(MaxCases)[MaxCases + 1 - i]) :
                           i \in ids}
    /\ activeCase = NoCase
    /\ currentAnalysis = NoText
    /\ currentView = "admin"
    /\ isLoading = FALSE
    /\ analyzing = Idle
    /\ inflight = {}
    /\ createdStatus = [i \in CaseIds |-> "null"]
    /\ accepted = NoneAccepted
    /\ ev = NoEvent
    /\ evalIn = EvalIdle
    /\ evalOut = EvalNone
    /\ \E brand \in {"null", "Toyota"}, na \in 0..MaxAppraisers, nt \in 0..MaxTechnicians,
          types \in SUBSET StandardTypes :
          localStore = [brand |-> brand,
                        appraisers |-> [i \in 1..na |-> AppraiserOf(i)],
                        technicians |-> [i \in 1..nt |-> TechnicianOf(i)],
                        standards |-> IF types = {} THEN <<>>
                                      ELSE <<[id |-> 1, type |-> "SAFETY", fileName |-> "local.pdf",
                                              extractedRules |-> "local rules"]>>]
    /\ \E as \in SUBSET (1..MaxAppraisers), ts \in SUBSET (1..MaxTechnicians),
          types \in SUBSET StandardTypes :
          remoteStore = [settings |-> "Honda",
                         appraisers |-> {AppraiserRow(AppraiserOf(i)) : i \in as},
                         technicians |-> {TechnicianRow(TechnicianOf(i)) : i \in ts},
                         standards |-> {[id |-> 0, type |-> t, file_name |-> "remote.pdf",
                                         extracted_rules |-> "remote rules"] : t \in types}]
    /\ sync = SyncIdle
    /\ call = NoCall
    /\ admin = AdminIdle
    /\ profiling = NotProfiled
    /\ intake = IntakeIdle

\* mutant of SyncStart: the test for a configured client is missing
SyncStart_NoClientCheck ==
    /\ sync.pc \in {"idle", "returned"}
    /\ sync.runs < MaxSyncRuns
    /\ sync' = [sync EXCEPT !.pc = "running", !.todo = SyncTodo(localStore, localCases),
                            !.count = 0, !.runs = @ + 1, !.written = <<>>]
    /\ UNCHANGED <<appVars, evalVars, call, intake, admin, profiling, localStore, remoteStore>>

\* syncLocalToCloud is called: without a client it returns {success: false, count: 0},
\* else it reads localStorage and starts replaying
SyncStart ==
    /\ sync.pc \in {"idle", "returned"}
    /\ sync.runs < MaxSyncRuns
    /\ sync' = IF ~IsRemote(gateway)
               THEN [sync EXCEPT !.pc = "returned", !.todo = <<>>, !.count = 0,
                                 !.success = FALSE, !.runs = @ + 1, !.written = <<>>]
               ELSE [sync EXCEPT !.pc = "running", !.todo = SyncTodo(localStore, localCases),
                                 !.count = 0, !.runs = @ + 1, !.written = <<>>]
    /\ UNCHANGED <<appVars, evalVars, call, intake, admin, profiling, localStore, remoteStore>>

\* mutant of SyncAborted: the count of the completed writes is not reported
SyncAborted_CountLost(transport) ==
    [sync EXCEPT !.pc = "returned", !.todo = <<>>, !.success = FALSE, !.count = 0,
                 !.transportFailed = @ \/ transport]

\* the catch block: {success: false, count}
SyncAborted(transport) ==
    [sync EXCEPT !.pc = "returned", !.todo = <<>>, !.success = FALSE,
                 !.transportFailed = @ \/ transport]
\* count++ after an awaited write; written records the writes the remote store
\* applied in this run
SyncCounted ==
    [sync EXCEPT !.todo = Tail(@), !.count = @ + 1, !.written = Append(@, Head(sync.todo))]

SyncWrites(kind) == sync.pc = "running" /\ sync.todo # <<>> /\ Head(sync.todo).kind = kind

\* await saveBrand(brand): upsert of the settings row
SyncSaveBrand(error) ==
    /\ SyncWrites("brand")
    /\ IF error
       THEN sync' = SyncAborted(TRUE) /\ UNCHANGED remoteStore
       ELSE /\ remoteStore' = [remoteStore EXCEPT !.settings = Head(sync.todo).rec]
            /\ sync' = SyncCounted
    /\ UNCHANGED <<appVars, evalVars, call, intake, admin, profiling, localStore>>

\* await saveAppraiser(app): insert into appraisers
SyncSaveAppraiser(error) ==
    /\ SyncWrites("appraiser")
    /\ LET row == AppraiserRow(Head(sync.todo).rec)
       IN  IF error \/ InsertFails(remoteStore.appraisers, row)
           THEN sync' = SyncAborted(error) /\ UNCHANGED remoteStore
           ELSE /\ remoteStore' = [remoteStore EXCEPT !.appraisers = @ \cup {row}]
                /\ sync' = SyncCounted
    /\ UNCHANGED <<appVars, evalVars, call, intake, admin, profiling, localStore>>

\* await saveTechnician(tech): insert into technicians
SyncSaveTechnician(error) ==
    /\ SyncWrites("technician")
    /\ LET row == TechnicianRow(Head(sync.todo).rec)
       IN  IF error \/ InsertFails(remoteStore.technicians, row)
           THEN sync' = SyncAborted(error) /\ UNCHANGED remoteStore
           ELSE /\ remoteStore' = [remoteStore EXCEPT !.technicians = @ \cup {row}]
                /\ sync' = SyncCounted
    /\ UNCHANGED <<appVars, evalVars, call, intake, admin, profiling, localStore>>

\* await saveStandard(doc): upsert on type
SyncSaveStandard(error) ==
    /\ SyncWrites("standard")
    /\ IF error
       THEN sync' = SyncAborted(TRUE) /\ UNCHANGED remoteStore
       ELSE /\ remoteStore' = [remoteStore EXCEPT
                    !.standards = UpsertStandard(@, StandardRow(Head(sync.todo).rec))]
            /\ sync' = SyncCounted
    /\ UNCHANGED <<appVars, evalVars, call, intake, admin, profiling, localStore>>

\* await saveCase(c): upsert on id
SyncSaveCase(error) ==
    /\ SyncWrites("case")
    /\ IF error
       THEN sync' = SyncAborted(TRUE) /\ UNCHANGED remoteCases
       ELSE /\ remoteCases' = UpsertCase(remoteCases, CaseRow(gateway, Head(sync.todo).rec))
            /\ sync' = SyncCounted
    /\ UNCHANGED <<evalVars, call, intake, admin, profiling, localStore, remoteStore, gateway, currentYear, now, localCases,
                   activeCase, currentAnalysis, currentView, isLoading, analyzing, inflight,
                   createdStatus, accepted, ev>>

\* every loop is done: {success: true, count}
SyncReturn ==
    /\ sync.pc = "running"
    /\ sync.todo = <<>>
    /\ sync' = [sync EXCEPT !.pc = "returned", !.success = TRUE]
    /\ UNCHANGED <<appVars, evalVars, call, intake, admin, profiling, localStore, remoteStore>>

SyncNext ==
    \/ SyncStart
    \/ \E error \in BOOLEAN : SyncSaveBrand(error)
    \/ \E error \in BOOLEAN : SyncSaveAppraiser(error)
    \/ \E error \in BOOLEAN : SyncSaveTechnician(error)
    \/ \E error \in BOOLEAN : SyncSaveStandard(error)
    \/ \E error \in BOOLEAN : SyncSaveCase(error)
    \/ SyncReturn

SyncSpec == SyncInit /\ [][SyncNext]_vars

\* the remote tables hold one record per key, and every record of localStorage
RemoteHoldsLocal ==
    /\ localStore.brand # "null" => remoteStore.settings = localStore.brand
    /\ \A i \in 1..Len(localStore.appraisers) :
          Cardinality({r \in remoteStore.appraisers : r.id = localStore.appraisers[i].id}) = 1
    /\ \A i \in 1..Len(localStore.technicians) :
          Cardinality({r \in remoteStore.technicians : r.id = localStore.technicians[i].id}) = 1
    /\ \A i \in 1..Len(localStore.standards) :
          {r \in remoteStore.standards : r.type = localStore.standards[i].type}
              = {StandardRow(localStore.standards[i])}
    /\ \A i \in 1..Len(localCases) :
          {r \in remoteCases : r.id = localCases[i].id} = {CaseRow(gateway, localCases[i])}

\* C10 (as claimed): whatever part of the local records the remote tables already
\* hold, a sync whose writes meet no transport failure returns success, and the
\* remote tables then hold every local record, one per key; so does a second run.
C10_SyncSafeToRerun ==
    (/\ sync.pc = "returned"
     /\ IsRemote(gateway)
     /\ ~sync.transportFailed)
    => (sync.success /\ RemoteHoldsLocal)

\* the local records in the order brand, appraisers, technicians, standards, cases
ExpectedReplay ==
    LET kinds == <<"brand", "appraiser", "technician", "standard", "case">>
        recs(k) == IF k = "brand"
                   THEN (IF localStore.brand = "null" THEN <<>> ELSE <<localStore.brand>>)
                   ELSE IF k = "appraiser" THEN localStore.appraisers
                   ELSE IF k = "technician" THEN localStore.technicians
                   ELSE IF k = "standard" THEN localStore.standards
                   ELSE localCases
        tagged(k) == [i \in 1..Len(recs(k)) |-> [kind |-> k, rec |-> recs(k)[i]]]
    IN  tagged(kinds[1]) \o tagged(kinds[2]) \o tagged(kinds[3]) \o tagged(kinds[4])
            \o tagged(kinds[5])

\* C11: with a remote store configured, the writes a sync has applied are at every
\* moment a prefix of the local records in the order brand, appraisers, technicians,
\* standards, cases, and count is their number; the sync returns success exactly
\* when that prefix is the whole list, so that a failed sync reports the number of
\* writes completed before the failure and has written nothing after it.
C11_SyncStopsAtFirstFailure ==
    (IsRemote(gateway) /\ sync.pc # "idle") =>
        /\ IsPrefix(sync.written, ExpectedReplay)
        /\ sync.count = Len(sync.written)
        /\ sync.pc = "returned" => (sync.success <=> sync.written = ExpectedReplay)

\* C11 witness: a sync that failed after two completed writes, with local records
\* left unwritten
C11_Witness ==
    /\ IsRemote(gateway)
    /\ sync.pc = "returned"
    /\ ~sync.success
    /\ sync.count = 2
    /\ Len(ExpectedReplay) > 3

----------------------------------------------------------------------------
(* The operations of the persistence gateway, called in any order on a fresh  *)
(* install; a call and its outcome are one step. The standards and the brand  *)
(* share nothing with the other records and have a specification of their    *)
(* own.                                                                       *)

\* what can go wrong underneath a call: the remote client answers with an error;
\* localStorage.setItem raises QuotaExceededError or another exception;
\* JSON.parse of a stored value raises
\* "remoteOnlyNoClient": src/services/storageService.ts in a process without remote
\* credentials, where supabaseClient exports supabase = null
StoreGateways == Gateways \cup {"remoteOnlyNoClient"}

\* the remote credentials are configured: createClient was called
Configured(gw) == gw \in {"remoteOnly", "dualRemote"}

\* "noClient": the operation dereferences the null client (supabase.from)
WriteFaults(gw) ==
    IF gw = "remoteOnlyNoClient" THEN {"noClient"}
    ELSE IF IsRemote(gw) THEN {"none", "error"} ELSE {"none", "quota", "error"}
ReadFaults(gw) ==
    IF gw = "remoteOnlyNoClient" THEN {"noClient"}
    ELSE IF IsRemote(gw) THEN {"none", "error"} ELSE {"none", "unreadable"}

\* setLocal: the value is stored unless setItem raises; the exception is caught
setLocal(old, val, fault) == IF fault = "none" THEN val ELSE old
\* setLocal alerts on QuotaExceededError only, and returns nothing to its caller
setLocalAlerts(fault) == fault = "quota"
setLocalOutcome(fault) == "returned"

\* a call of op with arg has met fault and given its caller outcome and result;
\* n tells a call from the one before it
Called(op, arg, fault, outcome, result) ==
    [op |-> op, arg |-> arg, fault |-> fault, outcome |-> outcome, result |-> result,
     alerted |-> gateway = "dualLocal" /\ op # "saveBrand" /\ setLocalAlerts(fault),
     n |-> 1 - call.n]

\* a remote write: the dual gateway throws the error, storageService.ts logs it
RemoteWriteOutcome(gw, fault) ==
    IF (gw = "dualRemote" /\ fault # "none") \/ fault = "noClient" THEN "threw" ELSE "returned"

\* what the caller of a write gets
WriteOutcome(gw, fault) ==
    IF IsRemote(gw) THEN RemoteWriteOutcome(gw, fault) ELSE setLocalOutcome(fault)

\* the cases the gateway is called with: a case before and after a transition, and
\* an older case whose model year is a number or NaN
StoreCases ==
    LET newer == NewCase(1, 2500, [year |-> JNum(2023), kilometres |-> JNum(50000)], "HCUV", 1)
    IN  { newer,
          UpdatedCase(newer, "Certified", 2600),
          NewCase(2, 1500, [year |-> JNum(2019), kilometres |-> JNum(50000)], "HAPO", 2),
          NewCase(2, 1500, [year |-> JNaN, kilometres |-> JNum(50000)], "HAPO", 2) }
StoreCaseIds == {c.id : c \in StoreCases}

StoreInit ==
    /\ gateway \in StoreGateways
    /\ currentYear \in CalendarYears
    /\ AppAtRest
    /\ evalIn = EvalIdle
    /\ evalOut = EvalNone
    /\ localStore = EmptyLocal
    /\ remoteStore = IF Configured(gateway) THEN [EmptyRemote EXCEPT !.settings = "Honda"]
                     ELSE EmptyRemote
    /\ sync = SyncIdle
    /\ call = NoCall
    /\ admin = AdminIdle
    /\ profiling = NotProfiled
    /\ intake = IntakeIdle

\* the variables no gateway operation touches
StoreFrame ==
    UNCHANGED <<gateway, currentYear, now, activeCase, currentAnalysis, currentView, isLoading,
                analyzing, inflight, createdStatus, accepted, ev, evalVars, sync, intake, admin, profiling>>

\* saveCase(newCase)
SaveCase(c, fault) ==
    /\ fault \in WriteFaults(gateway)
    /\ IF IsRemote(gateway)
       THEN /\ remoteCases' = IF fault = "none"
                              THEN UpsertCase(remoteCases, CaseRow(gateway, c))
                              ELSE remoteCases
            /\ UNCHANGED localCases
            /\ call' = Called("saveCase", c, fault,
                        RemoteWriteOutcome(gateway, fault), <<>>)
       ELSE /\ localCases' = setLocal(localCases, LocalSaveCase(localCases, c), fault)
            /\ UNCHANGED remoteCases
            /\ call' = Called("saveCase", c, fault,
                        setLocalOutcome(fault), <<>>)
    /\ UNCHANGED <<localStore, remoteStore>>
    /\ StoreFrame

\* mutant of DeleteRows: a delete that hits empties the table
DeleteRows_DropsAll(rows, id) == IF \E r \in rows : r.id = id THEN {} ELSE rows

\* the stored cases without the id
DeleteRows(rows, id) == {r \in rows : r.id # id}
DeleteLocal(list, id) == SelectSeq(list, LAMBDA x : x.id # id)

\* deleteCase(id), of the dual gateway
DeleteCase(id, fault) ==
    /\ gateway \notin {"remoteOnly", "remoteOnlyNoClient"}
    /\ fault \in WriteFaults(gateway)
    /\ IF IsRemote(gateway)
       THEN /\ remoteCases' = IF fault = "none" THEN DeleteRows(remoteCases, id) ELSE remoteCases
            /\ UNCHANGED localCases
            /\ call' = Called("deleteCase", id, fault,
                        RemoteWriteOutcome(gateway, fault), <<>>)
       ELSE /\ localCases' = setLocal(localCases, DeleteLocal(localCases, id), fault)
            /\ UNCHANGED remoteCases
            /\ call' = Called("deleteCase", id, fault,
                        setLocalOutcome(fault), <<>>)
    /\ UNCHANGED <<localStore, remoteStore>>
    /\ StoreFrame

\* a listing operation: the remote branch answers [] on an error; getLocal has no
\* handler around JSON.parse
ListingCall(op, fault, listed) ==
    Called(op, 0, fault,
           IF (~IsRemote(gateway) /\ fault # "none") \/ fault = "noClient"
           THEN "threw" ELSE "returned",
           IF fault # "none" THEN <<>> ELSE listed)

\* getAllCases()
GetAllCases(fault) ==
    /\ fault \in ReadFaults(gateway)
    /\ call' = ListingCall("getAllCases", fault, getAllCases(gateway, localCases, remoteCases))
    /\ UNCHANGED <<localCases, remoteCases, localStore, remoteStore>>
    /\ StoreFrame


\* what getAllCases lists, read without a fault
ListedCases == getAllCases(gateway, localCases, remoteCases)
ListedWithId(list, id) == SelectSeq(list, LAMBDA x : x.id = id)

\* the stored cases as getAllCases maps them, in no order, and their number
StoredCaseRecords ==
    IF IsRemote(gateway) THEN {RowCase(r) : r \in remoteCases}
    ELSE {localCases[i] : i \in 1..Len(localCases)}
StoredCaseCount == IF IsRemote(gateway) THEN Cardinality(remoteCases) ELSE Len(localCases)

C14_ListedNewestFirst ==
    /\ \A id \in StoreCaseIds : Len(ListedWithId(ListedCases, id)) <= 1
    /\ \A i, j \in 1..Len(ListedCases) :
          i < j => ListedCases[i].timestamp >= ListedCases[j].timestamp

\* C15 (as claimed): after a saveCase(c) whose write is applied, getAllCases lists
\* a case equal to c on every field.
C15_SaveThenListRoundTrip ==
    (call.op = "saveCase" /\ call.fault = "none") =>
        \E i \in 1..Len(ListedCases) : ListedCases[i] = call.arg

\* the documents handleFileUpload saves: two uploads of one type and one of another
StoreDocs ==
    { [id |-> 1, type |-> "SAFETY", fileName |-> "first.pdf", extractedRules |-> "first rules"],
      [id |-> 2, type |-> "SAFETY", fileName |-> "second.pdf", extractedRules |-> "second rules"],
      [id |-> 3, type |-> "HCUV", fileName |-> "manual.pdf", extractedRules |-> "manual rules"] }

\* the row storageService.ts upserts, with the document's id
StandardRowWithId(doc) == [StandardRow(doc) EXCEPT !.id = doc.id]
\* upsert on the primary key id; the column type is UNIQUE
TypeTaken(rows, row) == \E r \in rows : r.type = row.type /\ r.id # row.id
UpsertStandardById(rows, row) == {r \in rows : r.id # row.id} \cup {row}

\* local saveStandard: findIndex by type, replace in place or push
LocalSaveStandard(standards, doc) ==
    LET hits == {i \in 1..Len(standards) : standards[i].type = doc.type}
    IN  IF hits # {}
        THEN LET index == CHOOSE i \in hits : \A j \in hits : i <= j
             IN  [standards EXCEPT ![index] = doc]
        ELSE Append(standards, doc)

\* saveStandard(doc): what it does to the stores and what its caller gets
saveStandard(doc, fault) ==
    /\ fault \in WriteFaults(gateway)
    /\ IF gateway = "remoteOnly"
       THEN LET row == StandardRowWithId(doc)
            IN  remoteStore' =
                  IF fault = "none" /\ ~TypeTaken(remoteStore.standards, row)
                  THEN [remoteStore EXCEPT !.standards = UpsertStandardById(@, row)]
                  ELSE remoteStore
       ELSE IF gateway = "dualRemote"
       THEN remoteStore' =
              IF fault = "none"
              THEN [remoteStore EXCEPT !.standards = UpsertStandard(@, StandardRow(doc))]
              ELSE remoteStore
       ELSE UNCHANGED remoteStore
    /\ localStore' =
         IF IsRemote(gateway) THEN localStore
         ELSE [localStore EXCEPT
                 !.standards = setLocal(@, LocalSaveStandard(@, doc), fault)]
    /\ call' = Called("saveStandard", doc, fault, WriteOutcome(gateway, fault), <<>>)
    /\ UNCHANGED <<localCases, remoteCases>>

\* a call of saveStandard(doc)
SaveStandard(doc, fault) ==
    /\ saveStandard(doc, fault)
    /\ StoreFrame

\* what getStandards lists, read without a fault: the stored documents by type,
\* file name and extracted rules
ListedStandards ==
    IF IsRemote(gateway)
    THEN {[type |-> r.type, fileName |-> r.file_name, extractedRules |-> r.extracted_rules] :
            r \in remoteStore.standards}
    ELSE {[type |-> d.type, fileName |-> d.fileName, extractedRules |-> d.extractedRules] :
            d \in {localStore.standards[i] : i \in 1..Len(localStore.standards)}}
StoredStandardCount ==
    IF IsRemote(gateway) THEN Cardinality(remoteStore.standards) ELSE Len(localStore.standards)

\* C12 (as claimed): the store holds at most one document per type, and a
\* saveStandard(doc) that meets no fault leaves, for doc's type, the document with
\* doc's file name and extracted rules.
C12_SaveStandardUpsertsByType ==
    /\ StoredStandardCount = Cardinality({d.type : d \in ListedStandards})
    /\ (call.op = "saveStandard" /\ call.fault = "none") =>
          {d \in ListedStandards : d.type = call.arg.type}
              = {[type |-> call.arg.type, fileName |-> call.arg.fileName,
                  extractedRules |-> call.arg.extractedRules]}

\* the ids of a list, and a table listed in the order of its ids
ListIds(list) == {list[i].id : i \in 1..Len(list)}
RECURSIVE RowsById(_)
RowsById(rows) ==
    IF rows = {} THEN <<>>
    ELSE LET first == CHOOSE r \in rows : \A q \in rows : r.id <= q.id
         IN  <<first>> \o RowsById(rows \ {first})

\* the people the admin view adds and removes
StoreAppraisers == {AppraiserOf(1), AppraiserOf(2)}
StoreTechnicians == {TechnicianOf(1)}
StoreAppraiserIds == {a.id : a \in StoreAppraisers}
StoreTechnicianIds == {t.id : t \in StoreTechnicians}
StoreBrands == {"Toyota", "Ford"}

\* saveAppraiser(app); handleAddAppraiser gives app a new crypto.randomUUID()
SaveAppraiser(app, fault) ==
    /\ fault \in WriteFaults(gateway)
    /\ app.id \notin ListIds(localStore.appraisers) \cup {r.id : r \in remoteStore.appraisers}
    /\ IF IsRemote(gateway)
       THEN /\ remoteStore' = IF fault = "none"
                              THEN [remoteStore EXCEPT !.appraisers = @ \cup {AppraiserRow(app)}]
                              ELSE remoteStore
            /\ UNCHANGED localStore
       ELSE /\ localStore' = [localStore EXCEPT !.appraisers = setLocal(@, Append(@, app), fault)]
            /\ UNCHANGED remoteStore
    /\ call' = Called("saveAppraiser", app, fault, WriteOutcome(gateway, fault), <<>>)
    /\ UNCHANGED <<localCases, remoteCases>>
    /\ StoreFrame

\* deleteAppraiser(id)
DeleteAppraiser(id, fault) ==
    /\ fault \in WriteFaults(gateway)
    /\ IF IsRemote(gateway)
       THEN /\ remoteStore' = IF fault = "none"
                              THEN [remoteStore EXCEPT !.appraisers = DeleteRows(@, id)]
                              ELSE remoteStore
            /\ UNCHANGED localStore
       ELSE /\ localStore' = [localStore EXCEPT
                                !.appraisers = setLocal(@, DeleteLocal(@, id), fault)]
            /\ UNCHANGED remoteStore
    /\ call' = Called("deleteAppraiser", id, fault, WriteOutcome(gateway, fault), <<>>)
    /\ UNCHANGED <<localCases, remoteCases>>
    /\ StoreFrame

\* saveTechnician(tech); handleAddTechnician gives tech a new crypto.randomUUID()
SaveTechnician(tech, fault) ==
    /\ fault \in WriteFaults(gateway)
    /\ tech.id \notin ListIds(localStore.technicians) \cup {r.id : r \in remoteStore.technicians}
    /\ IF IsRemote(gateway)
       THEN /\ remoteStore' = IF fault = "none"
                              THEN [remoteStore EXCEPT !.technicians = @ \cup {TechnicianRow(tech)}]
                              ELSE remoteStore
            /\ UNCHANGED localStore
       ELSE /\ localStore' = [localStore EXCEPT !.technicians = setLocal(@, Append(@, tech), fault)]
            /\ UNCHANGED remoteStore
    /\ call' = Called("saveTechnician", tech, fault, WriteOutcome(gateway, fault), <<>>)
    /\ UNCHANGED <<localCases, remoteCases>>
    /\ StoreFrame

\* deleteTechnician(id)
DeleteTechnician(id, fault) ==
    /\ fault \in WriteFaults(gateway)
    /\ IF IsRemote(gateway)
       THEN /\ remoteStore' = IF fault = "none"
                              THEN [remoteStore EXCEPT !.technicians = DeleteRows(@, id)]
                              ELSE remoteStore
            /\ UNCHANGED localStore
       ELSE /\ localStore' = [localStore EXCEPT
                                !.technicians = setLocal(@, DeleteLocal(@, id), fault)]
            /\ UNCHANGED remoteStore
    /\ call' = Called("deleteTechnician", id, fault, WriteOutcome(gateway, fault), <<>>)
    /\ UNCHANGED <<localCases, remoteCases>>
    /\ StoreFrame

\* saveBrand(brand): the local branch calls localStorage.setItem itself, with no
\* handler around it
SaveBrand(brand, fault) ==
    /\ fault \in WriteFaults(gateway)
    /\ IF IsRemote(gateway)
       THEN /\ remoteStore' = IF fault = "none" THEN [remoteStore EXCEPT !.settings = brand]
                              ELSE remoteStore
            /\ UNCHANGED localStore
            /\ call' = Called("saveBrand", brand, fault, RemoteWriteOutcome(gateway, fault), <<>>)
       ELSE /\ localStore' = IF fault = "none" THEN [localStore EXCEPT !.brand = brand]
                             ELSE localStore
            /\ UNCHANGED remoteStore
            /\ call' = Called("saveBrand", brand, fault,
                              IF fault = "none" THEN "returned" ELSE "threw", <<>>)
    /\ UNCHANGED <<localCases, remoteCases>>
    /\ StoreFrame

\* getStandards() (the upload date is not modelled: the rows are listed by id)
GetStandards(fault) ==
    /\ fault \in ReadFaults(gateway)
    /\ call' = ListingCall("getStandards", fault,
                           IF IsRemote(gateway) THEN RowsById(remoteStore.standards)
                           ELSE localStore.standards)
    /\ UNCHANGED <<localCases, remoteCases, localStore, remoteStore>>
    /\ StoreFrame

\* getAppraisers() (the names are equal: the rows are listed by id)
GetAppraisers(fault) ==
    /\ fault \in ReadFaults(gateway)
    /\ call' = ListingCall("getAppraisers", fault,
                           IF IsRemote(gateway) THEN RowsById(remoteStore.appraisers)
                           ELSE localStore.appraisers)
    /\ UNCHANGED <<localCases, remoteCases, localStore, remoteStore>>
    /\ StoreFrame

\* getTechnicians()
GetTechnicians(fault) ==
    /\ fault \in ReadFaults(gateway)
    /\ call' = ListingCall("getTechnicians", fault,
                           IF IsRemote(gateway) THEN RowsById(remoteStore.technicians)
                           ELSE localStore.technicians)
    /\ UNCHANGED <<localCases, remoteCases, localStore, remoteStore>>
    /\ StoreFrame

WriteOps == {"saveCase", "deleteCase", "saveStandard", "saveAppraiser", "deleteAppraiser",
             "saveTechnician", "deleteTechnician", "saveBrand"}
ListingOps == {"getAllCases", "getStandards", "getAppraisers", "getTechnicians"}
DeleteOps == {"deleteCase", "deleteAppraiser", "deleteTechnician"}

\* C16 (as claimed): a write operation whose underlying write fails does not
\* return normally to its caller.
C16_WriteFailureSurfaced ==
    (call.op \in WriteOps /\ call.fault # "none") => call.outcome = "threw"

\* C17 (as claimed): a listing operation whose underlying read fails, remote or
\* local, returns an empty collection to its caller.
C17_ListingFailureGivesEmpty ==
    (call.op \in ListingOps /\ call.fault # "none") =>
        (call.outcome = "returned" /\ call.result = <<>>)

\* the outcome a caller of the local store is to see for each kind of fault
LocalOutcomeKind(fault) ==
    IF fault = "none" THEN "returned"
    ELSE IF fault = "quota" THEN "capacityExceeded"
    ELSE "threw"

\* C18 (as claimed): a write to the local store gives its caller one of three
\* distinct outcomes: success, capacity exceeded, or a generic failure.
C18_CapacityExceededDistinct ==
    (gateway = "dualLocal" /\ call.op \in WriteOps) =>
        call.outcome = LocalOutcomeKind(call.fault)

\* the records a delete operation works on, as listed without a fault
StoredFor(op) ==
    IF op = "deleteCase" THEN StoredCaseRecords
    ELSE IF op = "deleteAppraiser"
    THEN (IF IsRemote(gateway) THEN remoteStore.appraisers
          ELSE {localStore.appraisers[i] : i \in 1..Len(localStore.appraisers)})
    ELSE (IF IsRemote(gateway) THEN remoteStore.technicians
          ELSE {localStore.technicians[i] : i \in 1..Len(localStore.technicians)})

\* C19: a delete whose write meets no fault returns normally whether or not the id
\* is stored, and leaves exactly the records with another id; when the id is not
\* stored the store is left as it was, so a second delete of an id changes
\* nothing; no delete removes a record with another id.
C19_DeleteIdempotent ==
    [][ \A op \in DeleteOps : call'.op = op =>
          LET id == call'.arg
              before == StoredFor(op)
              after == StoredFor(op)'
          IN  /\ {r \in after : r.id # id} = {r \in before : r.id # id}
              /\ call'.fault = "none" =>
                    /\ call'.outcome = "returned"
                    /\ after = {r \in before : r.id # id}
              /\ (\A r \in before : r.id # id) =>
                    <<localCases, remoteCases, localStore, remoteStore>>'
                        = <<localCases, remoteCases, localStore, remoteStore>>
      ]_vars

\* C19 witness: the delete of an appraiser has returned and the store holds the
\* other appraiser only
C19_Witness ==
    /\ call.op = "deleteAppraiser"
    /\ call.fault = "none"
    /\ call.n = 0
    /\ StoredFor("deleteAppraiser") = {AppraiserRow(AppraiserOf(2))}
    /\ call.arg = 1

StoreWriteFaults == {"none", "quota", "error", "noClient"}
StoreReadFaults == {"none", "unreadable", "error", "noClient"}

StoreNext ==
    \/ \E c \in StoreCases, fault \in StoreWriteFaults : SaveCase(c, fault)
    \/ \E id \in StoreCaseIds, fault \in StoreWriteFaults : DeleteCase(id, fault)
    \/ \E fault \in StoreReadFaults : GetAllCases(fault)
    \/ \E app \in StoreAppraisers, fault \in StoreWriteFaults : SaveAppraiser(app, fault)
    \/ \E id \in StoreAppraiserIds, fault \in StoreWriteFaults : DeleteAppraiser(id, fault)
    \/ \E tech \in StoreTechnicians, fault \in StoreWriteFaults : SaveTechnician(tech, fault)
    \/ \E id \in StoreTechnicianIds, fault \in StoreWriteFaults : DeleteTechnician(id, fault)
    \/ \E fault \in StoreReadFaults : GetAppraisers(fault)
    \/ \E fault \in StoreReadFaults : GetTechnicians(fault)

StoreSpec == StoreInit /\ [][StoreNext]_vars

\* the operations on the standards and on the brand setting, the other records
\* left alone
StandardsNext ==
    \/ \E brand \in StoreBrands, fault \in StoreWriteFaults : SaveBrand(brand, fault)
    \/ \E doc \in StoreDocs, fault \in StoreWriteFaults : SaveStandard(doc, fault)
    \/ \E fault \in StoreReadFaults : GetStandards(fault)

StandardsSpec == StoreInit /\ [][StandardsNext]_vars

----------------------------------------------------------------------------
(* InspectionForm: the program selection while the vehicle is entered *)

\* values the Year and Kilometres inputs can hold: parseInt(value) || fallback
IntakeYears == {JNum(2015), JNum(2016), JNum(2019), JNum(2020), JNum(2021), JNum(2026)}
IntakeKilometres ==
    {JNum(0), JNum(50000), JNum(120000), JNum(120001), JNum(200000), JNum(200001)}

\* what the VIN lookup answers: the fetch rejects; the body is not JSON; the body
\* has no Model Year, Make and Model for the VIN; the body has the three
VinResponses ==
    { [kind |-> "networkError", year |-> "undefined", make |-> "undefined", model |-> "undefined"],
      [kind |-> "malformed", year |-> "undefined", make |-> "undefined", model |-> "undefined"],
      [kind |-> "notFound", year |-> "undefined", make |-> "undefined", model |-> "undefined"],
      [kind |-> "found", year |-> "2015", make |-> "Honda", model |-> "Civic"],
      [kind |-> "found", year |-> "2021", make |-> "Honda", model |-> "Civic"] }

\* parseInt of a Model Year value
parseInt(text) ==
    CASE text = "2015" -> JNum(2015)
      [] text = "2021" -> JNum(2021)
      [] OTHER -> JNaN

\* decodeVIN: null when fetch or response.json() throws, else the record built
\* from the Results, whatever they hold
decodeVIN(response) ==
    IF response.kind \in {"networkError", "malformed"}
    THEN [null |-> TRUE, year |-> JNull, make |-> "undefined", model |-> "undefined"]
    ELSE [null |-> FALSE, year |-> parseInt(response.year), make |-> response.make,
          model |-> response.model]

\* the makes and models the vAuto import reads
ImportedNames == {[make |-> "Toyota", model |-> "Corolla"]}

\* handleVAutoUpload: parseInt of the digits of result.kilometres, NaN when
\* the text has no digit
ImportedKilometres == IntakeKilometres \cup {JNaN}

IntakeVehicle == [year |-> intake.year, kilometres |-> intake.kilometres]

\* the form as useState initialises it: program HCUV, this year, 0 km
IntakeMounted ==
    [program |-> "HCUV", year |-> JNum(currentYear), kilometres |-> JNum(0),
     make |-> "", model |-> "", before |-> "HCUV", step |-> "mounted", decoded |-> "none"]

IntakeInit ==
    /\ gateway = "dualLocal"
    /\ currentYear \in EvalCalendarYears
    /\ AppAtRest
    /\ evalIn = EvalIdle
    /\ evalOut = EvalNone
    /\ localStore = EmptyLocal
    /\ remoteStore = EmptyRemote
    /\ sync = SyncIdle
    /\ call = NoCall
    /\ admin = AdminIdle
    /\ profiling = NotProfiled
    /\ intake = IntakeMounted

\* mutant of AutoAdjust: an ineligible HCUV selection always becomes HAPO
AutoAdjust_AlwaysHAPO(program, vehicle) ==
    LET hcuv == FormCheckEligibility("HCUV", currentYear, vehicle)
        hapo == FormCheckEligibility("HAPO", currentYear, vehicle)
    IN  IF program = "HCUV" /\ ~hcuv.ok THEN "HAPO"
        ELSE IF program = "HAPO" /\ ~hapo.ok THEN "Certified"
        ELSE program

\* the effect on [vehicle.year, vehicle.kilometres]: the program it leaves selected
AutoAdjust(program, vehicle) ==
    LET hcuv == FormCheckEligibility("HCUV", currentYear, vehicle)
        hapo == FormCheckEligibility("HAPO", currentYear, vehicle)
    IN  IF program = "HCUV" /\ ~hcuv.ok
        THEN IF hapo.ok THEN "HAPO" ELSE "Certified"
        ELSE IF program = "HAPO" /\ ~hapo.ok THEN "Certified"
        ELSE program

\* setVehicle with a new year and odometer, then the effect, which runs when
\* one of its two dependencies has changed
SetVehicle(year, kilometres, named, step) ==
    LET vehicle == [year |-> year, kilometres |-> kilometres]
        changed == year # intake.year \/ kilometres # intake.kilometres
    IN  /\ intake.step # "unmounted"
        /\ intake' = [program |-> IF changed THEN AutoAdjust(intake.program, vehicle)
                                  ELSE intake.program,
                      year |-> year, kilometres |-> kilometres,
                      make |-> named.make, model |-> named.model,
                      before |-> intake.program, step |-> step,
                      decoded |-> IF step = "decoded" THEN "record" ELSE "none"]
        /\ UNCHANGED <<appVars, evalVars, syncVars, call, admin, profiling>>

\* the make and model the form holds
IntakeNames == [make |-> intake.make, model |-> intake.model]

\* onChange of the Year input
ChangeYear(year) ==
    /\ year # intake.year
    /\ SetVehicle(year, intake.kilometres, IntakeNames, "year")

\* onChange of the Kilometres input
ChangeKilometres(kilometres) ==
    /\ kilometres # intake.kilometres
    /\ SetVehicle(intake.year, kilometres, IntakeNames, "kilometres")

\* handleVINChange / captureVIN with a VIN of 17 characters: the record decodeVIN
\* returns is spread over the vehicle; null leaves the vehicle alone
DecodeVIN(response) ==
    LET decoded == decodeVIN(response)
    IN  /\ intake.step # "unmounted"
        /\ IF decoded.null
           THEN /\ intake' = [intake EXCEPT !.before = intake.program, !.step = "decoded",
                                            !.decoded = "null"]
                /\ UNCHANGED <<appVars, evalVars, syncVars, call, admin, profiling>>
           ELSE SetVehicle(decoded.year, intake.kilometres,
                           [make |-> decoded.make, model |-> decoded.model], "decoded")

\* handleVAutoUpload: parseInt(result.year) || v.year, the odometer, and
\* result.make || v.make, result.model || v.model
VAutoUpload(year, kilometres, named) ==
    /\ intake.step # "unmounted"
    /\ SetVehicle(year, kilometres, named, "imported")

\* onChange of the program select, whose ineligible options are disabled
SelectProgram(prog) ==
    /\ intake.step # "unmounted"
    /\ prog # intake.program
    /\ FormCheckEligibility(prog, currentYear, IntakeVehicle).ok
    /\ intake' = [intake EXCEPT !.program = prog, !.before = intake.program,
                                !.step = "selected"]
    /\ UNCHANGED <<appVars, evalVars, syncVars, call, admin, profiling>>

IntakeNext ==
    \/ \E year \in IntakeYears : ChangeYear(year)
    \/ \E kilometres \in IntakeKilometres : ChangeKilometres(kilometres)
    \/ \E response \in VinResponses : DecodeVIN(response)
    \/ \E year \in IntakeYears, kilometres \in ImportedKilometres, named \in ImportedNames :
           VAutoUpload(year, kilometres, named)
    \/ \E prog \in InventoryProgram : SelectProgram(prog)

IntakeSpec == IntakeInit /\ [][IntakeNext]_vars

IntakeChanged == intake.step \in {"year", "kilometres", "decoded", "imported"}
IntakeEligible(prog) == FormCheckEligibility(prog, currentYear, IntakeVehicle).ok

\* the first eligible program in the order HCUV, HAPO, Certified
BestEligible ==
    IF IntakeEligible("HCUV") THEN "HCUV"
    ELSE IF IntakeEligible("HAPO") THEN "HAPO"
    ELSE "Certified"

----------------------------------------------------------------------------
(* The status history as a count of the requests made *)

\* C21 (as claimed): once the requests made on the active case have completed,
\* the length of its statusHistory is the number of requests on that case that
\* were neither same-status nor rejected.
C21_HistoryCountsRequests ==
    (activeCase # NoCase /\ inflight = {}) =>
        Len(activeCase.statusHistory) = accepted[activeCase.id]

----------------------------------------------------------------------------
(* What a status transition leaves alone *)

\* the fields of a case other than currentStatus and statusHistory
CaseFrame(c) ==
    [id |-> c.id, timestamp |-> c.timestamp, mode |-> c.mode, vehicle |-> c.vehicle,
     data |-> c.data, analysis |-> c.analysis, detectedTotal |-> c.detectedTotal]

\* d is the case c after a transition: the same id with another history
Transitioned(c, d) == c.id = d.id /\ d.statusHistory # c.statusHistory

\* C22: whenever a step leaves a case, in memory or persisted, with another
\* statusHistory than it had, the case's id, timestamp, mode, vehicle, inspection
\* data, analysis text and detected total are what they were before the step.
C22_TransitionKeepsOtherFields ==
    [][/\ \A c \in MemoryCases : \A d \in MemoryCases' :
              Transitioned(c, d) => CaseFrame(d) = CaseFrame(c)
       /\ \A c \in PersistedCases : \A d \in PersistedCases' :
              Transitioned(c, d) => CaseFrame(d) = CaseFrame(c)]_vars

\* C22 witness: the active case has been transitioned and persisted, and it still
\* has the timestamp, mode, analysis and detected total it was created with
C22_Witness ==
    /\ activeCase # NoCase
    /\ Len(activeCase.statusHistory) = 1
    /\ activeCase \in PersistedCases
    /\ activeCase.timestamp = activeCase.id
    /\ activeCase.mode = "Audit Mode"
    /\ activeCase.analysis = activeCase.id
    /\ activeCase.detectedTotal = DetectedTotal(activeCase.id)

----------------------------------------------------------------------------
(* One store behind the gateway *)

\* the faults of the local store
LocalFaults == {"quota", "unreadable"}

\* C23 (as claimed): with remote credentials configured no gateway operation
\* touches the local store; without them no operation touches the remote store
\* and every operation that the local store does not fail returns normally.
C23_ExactlyOneStore ==
    [][call' # call =>
          /\ Configured(gateway) =>
                /\ <<localCases, localStore>>' = <<localCases, localStore>>
                /\ call'.fault \notin LocalFaults
          /\ ~Configured(gateway) =>
                /\ <<remoteCases, remoteStore>>' = <<remoteCases, remoteStore>>
                /\ call'.fault \notin (LocalFaults \cup {"error"}) =>
                       call'.outcome = "returned"
      ]_vars

----------------------------------------------------------------------------
(* handleAnalyze over a store that holds cases: the analysis fails or returns *)

\* what the intake form can submit besides FormInputs: a vehicle whose VIN
\* decoded to no model year (NaN), entered as HCUV
SubmittedInputs ==
    FormInputs \cup { <<[year |-> JNaN, kilometres |-> JNum(50000)], "HCUV">> }

AnalyzeNext ==
    \/ \E view \in LifecycleViews : Navigate(view)
    \/ \E i \in CaseIds : HandleSelectCase(i)
    \/ OnReset
    \/ \E in \in SubmittedInputs : StartAnalyze(in[1], in[2])
    \/ AnalyzeFailed
    \/ AnalyzeReturned
    \/ \E ok \in BOOLEAN : AnalyzeSaveServer(ok)
    \/ AnalyzeSaveReturned

AnalyzeSpec == Init /\ [][AnalyzeNext]_vars

\* C24: the step on which handleAnalyze catches the failure of the analysis
\* creates and persists no case, leaves the active case and the displayed
\* analysis as they were, and clears the loading flag.
C24_FailedAnalysisPreservesState ==
    [][ev' = "analyzeFailed" =>
          /\ isLoading' = FALSE
          /\ activeCase' = activeCase
          /\ currentAnalysis' = currentAnalysis
          /\ localCases' = localCases
          /\ remoteCases' = remoteCases
          /\ createdStatus' = createdStatus
          /\ now' = now
      ]_vars

\* C24 witness: an analysis has just failed while a stored case was the active
\* case; the case is still active and stored, and nothing is loading
C24_Witness ==
    /\ ev = "analyzeFailed"
    /\ activeCase # NoCase
    /\ activeCase \in PersistedCases
    /\ Cardinality(PersistedCases) = MaxCases
    /\ ~isLoading

----------------------------------------------------------------------------
(* VIN decoding as the intake form uses it *)

\* C25 (as claimed): decodeVIN returns nothing for every response but one that
\* holds the year, make and model, and a decode that did not find them leaves
\* the vehicle's year, make and model as they were.
C25_FailedDecodeLeavesVehicle ==
    [][\A response \in VinResponses :
          (response.kind # "found" /\ DecodeVIN(response)) =>
              /\ decodeVIN(response).null
              /\ intake'.year = intake.year
              /\ intake'.make = intake.make
              /\ intake'.model = intake.model
      ]_vars

----------------------------------------------------------------------------
(* AdminView: the upload of a standard document *)

\* what generateContent does for the document: it throws; it answers without
\* text; it answers with a text of fewer than 10 characters; it answers with rules
DigestOutcomes == {"error", "empty", "short", "rules"}

\* digestStandardDocument: the text it returns
digestStandardDocument(outcome) ==
    CASE outcome = "error" -> "Extraction error."
      [] outcome = "empty" -> "Failed to digest document."
      [] outcome = "short" -> "N/A"
      [] outcome = "rules" -> "Brake pads: minimum 3 mm."

\* handleFileUpload's test of the extracted text
DigestRejected(extractedRules) == extractedRules = "" \/ Len(extractedRules) < 10

\* the document types the AdminView uploads in this model, and the file chosen
UploadTypes == {"SAFETY", "HCUV"}
UploadIds == {4, 5}

\* the variables an upload leaves alone
UploadFrame ==
    UNCHANGED <<gateway, currentYear, now, activeCase, currentAnalysis, currentView, isLoading,
                analyzing, inflight, createdStatus, accepted, ev, evalVars, sync, intake, profiling>>

\* handleFileUpload up to reader.readAsDataURL(file)
StartUpload(type) ==
    /\ ~admin.isProcessing
    /\ admin' = [isProcessing |-> TRUE, uploading |-> type, digest |-> "none"]
    /\ UNCHANGED <<localCases, remoteCases, localStore, remoteStore, call>>
    /\ UploadFrame

\* reader.onload: the digestion, the test of its text, saveStandard, and the
\* finally block; a throw of saveStandard is caught as well
UploadDigested(outcome, id, fault) ==
    LET extractedRules == digestStandardDocument(outcome)
        newDoc == [id |-> id, type |-> admin.uploading, fileName |-> "upload.pdf",
                   extractedRules |-> extractedRules]
    IN  /\ admin.isProcessing
        /\ IF DigestRejected(extractedRules)
           THEN UNCHANGED <<localCases, remoteCases, localStore, remoteStore, call>>
           ELSE saveStandard(newDoc, fault)
        /\ admin' = [isProcessing |-> FALSE, uploading |-> admin.uploading, digest |-> outcome]
        /\ UploadFrame

UploadNext ==
    \/ \E type \in UploadTypes : StartUpload(type)
    \/ \E outcome \in DigestOutcomes, id \in UploadIds, fault \in StoreWriteFaults :
           UploadDigested(outcome, id, fault)

UploadSpec == StoreInit /\ [][UploadNext]_vars

\* C26 (as claimed): when the digestion of an upload has failed - the digestion
\* call raised an error, or gave no text or fewer than 10 characters - no
\* document is saved, the stored documents are unchanged and the processing flag
\* is cleared.
C26_FailedDigestionSavesNothing ==
    [][(admin'.digest \in {"error", "empty", "short"} /\ admin.isProcessing) =>
          /\ <<localStore, remoteStore>>' = <<localStore, remoteStore>>
          /\ ~admin'.isProcessing
      ]_vars

----------------------------------------------------------------------------
(* Technician profiles: the reduction of getTechnicianProfiles and of the *)
(* Dashboard over the cases it is given                                   *)

MaxProfileCases == 3

\* the inspection data of the cases given: no technician or one of two, and
\* estimates at the boundaries of the two thresholds
ProfileNames == {"", "Ana", "Bo"}
ProfileEstimates ==
    { <<1000, 800>>, <<2000, 0>>, <<1500, 0>>, <<1501, 0>>, <<0, 500>>, <<0, 501>>, <<0, 0>> }
ProfileData ==
    { [technicianName |-> name, serviceDepartmentEstimate |-> est[1],
       managerAppraisalEstimate |-> est[2]] : name \in ProfileNames, est \in ProfileEstimates }

RECURSIVE ProfileLists(_)
ProfileLists(n) ==
    IF n = 0 THEN {<<>>}
    ELSE LET shorter == ProfileLists(n - 1)
         IN  shorter \cup {Append(list, data) : list \in {l \in shorter : Len(l) = n - 1},
                                                data \in ProfileData}

\* x || 0 for a number
OrZero(x) == IF x = 0 THEN 0 ELSE x

\* the forEach loop: the Map from technician name to variance and count, its keys
\* in the order of their first case
RECURSIVE TechMap(_, _)
TechMap(cases, techMap) ==
    IF cases = <<>> THEN techMap
    ELSE LET data == Head(cases)
             name == data.technicianName
             at == {i \in 1..Len(techMap) : techMap[i].name = name}
             variance == OrZero(data.serviceDepartmentEstimate)
                           - OrZero(data.managerAppraisalEstimate)
         IN  IF name = "" THEN TechMap(Tail(cases), techMap)
             ELSE IF at = {}
             THEN TechMap(Tail(cases),
                          Append(techMap, [name |-> name, variance |-> variance, count |-> 1]))
             ELSE TechMap(Tail(cases),
                          [i \in 1..Len(techMap) |->
                              IF i \in at
                              THEN [techMap[i] EXCEPT !.variance = @ + variance, !.count = @ + 1]
                              ELSE techMap[i]])

\* mutant of ReliabilityTag: the upper threshold is inclusive
ReliabilityTag_Inclusive(variance, count) ==
    IF variance >= 1500 * count THEN "Aggressive"
    ELSE IF variance < (-500) * count THEN "Passive"
    ELSE "Accurate"

\* the tag of avgVariance = variance / count (count > 0), the average compared
\* as the quotient it is
ReliabilityTag(variance, count) ==
    IF variance > 1500 * count THEN "Aggressive"
    ELSE IF variance < (-500) * count THEN "Passive"
    ELSE "Accurate"

\* the profile of one Map entry; avgVariance is kept as numerator and denominator
Profile(stats) ==
    [technicianName |-> stats.name, totalCases |-> stats.count,
     avgVariance |-> <<stats.variance, stats.count>>,
     reliabilityTag |-> ReliabilityTag(stats.variance, stats.count)]

getTechnicianProfiles(cases) ==
    LET techMap == TechMap(cases, <<>>)
    IN  [i \in 1..Len(techMap) |-> Profile(techMap[i])]

ProfileInit ==
    /\ gateway = "dualLocal"
    /\ currentYear \in CalendarYears
    /\ AppAtRest
    /\ evalIn = EvalIdle
    /\ evalOut = EvalNone
    /\ localStore = EmptyLocal
    /\ remoteStore = EmptyRemote
    /\ sync = SyncIdle
    /\ call = NoCall
    /\ intake = IntakeIdle
    /\ admin = AdminIdle
    /\ profiling \in {[cases |-> list, done |-> FALSE, out |-> <<>>] :
                         list \in ProfileLists(MaxProfileCases)}

ComputeProfiles ==
    /\ ~profiling.done
    /\ profiling' = [profiling EXCEPT !.done = TRUE,
                                      !.out = getTechnicianProfiles(profiling.cases)]
    /\ UNCHANGED <<appVars, evalVars, syncVars, call, intake, admin>>

ProfileSpec == ProfileInit /\ [][ComputeProfiles]_vars

\* the cases of one technician, and the sum of their variances
CasesOf(name) == {i \in 1..Len(profiling.cases) : profiling.cases[i].technicianName = name}
RECURSIVE VarianceSum(_)
VarianceSum(indices) ==
    IF indices = {} THEN 0
    ELSE LET i == CHOOSE j \in indices : TRUE
         IN  profiling.cases[i].serviceDepartmentEstimate
               - profiling.cases[i].managerAppraisalEstimate + VarianceSum(indices \ {i})

\* C27: the profiles are one per technician name that occurs in the cases, none
\* for the cases without a name; totalCases is the number of the technician's
\* cases and the average variance is the sum of (service estimate - manager
\* estimate) over that number; the tag is Aggressive exactly when the average
\* is > 1500, Passive exactly when it is < -500, Accurate otherwise.
C27_ProfilesReduceCases ==
    profiling.done =>
        LET out == profiling.out
        IN  /\ {out[i].technicianName : i \in 1..Len(out)}
                 = {profiling.cases[i].technicianName : i \in 1..Len(profiling.cases)} \ {""}
            /\ \A i, j \in 1..Len(out) :
                  out[i].technicianName = out[j].technicianName => i = j
            /\ \A i \in 1..Len(out) :
                  LET mine == CasesOf(out[i].technicianName)
                      n == Cardinality(mine)
                      total == VarianceSum(mine)
                  IN  /\ out[i].totalCases = n
                      /\ out[i].avgVariance = <<total, n>>
                      /\ (out[i].reliabilityTag = "Aggressive") = (total > 1500 * n)
                      /\ (out[i].reliabilityTag = "Passive") = (total < (-500) * n)
                      /\ (out[i].reliabilityTag = "Accurate")
                             = (total <= 1500 * n /\ total >= (-500) * n)
            /\ \A i \in 1..Len(out) :
                  /\ out[i].avgVariance = <<1500, 1>> => out[i].reliabilityTag = "Accurate"
                  /\ out[i].avgVariance = <<1501, 1>> => out[i].reliabilityTag = "Aggressive"
                  /\ out[i].avgVariance = <<2200, 2>> => out[i].reliabilityTag = "Accurate"

\* C27 witness: Ana's two cases (1000, 800) and (2000, 0) average 1100 and make
\* her Accurate, and a case without a technician is given as well
C27_Witness ==
    /\ profiling.done
    /\ Len(profiling.cases) = 3
    /\ \E i \in 1..3 : profiling.cases[i].technicianName = ""
    /\ Len(profiling.out) = 1
    /\ profiling.out[1] = [technicianName |-> "Ana", totalCases |-> 2,
                           avgVariance |-> <<2200, 2>>, reliabilityTag |-> "Accurate"]

----------------------------------------------------------------------------
(* The whole audit flow: intake, analysis, Dashboard and status changes *)

AppNext ==
    \/ AnalyzeNext
    \/ \E newStatus \in PostReviewStatus : HandleStatusChange(newStatus)
    \/ \E req \in inflight : StatusSaveApplied(req)
    \/ \E req \in inflight, error \in BOOLEAN : StatusSaveReturned(req, error)

AppSpec == Init /\ [][AppNext]_vars

\* C28 (as claimed): whenever an analysis is displayed over an active case, it is
\* the analysis of that case; a status-change save that returns after the user
\* moved on to another case does not put its own case under that analysis.
C28_DisplayedAnalysisOfActiveCase ==
    (AnalysisShown /\ activeCase # NoCase) => currentAnalysis = activeCase.analysis

\* C29 (as claimed): with the calendar year fixed, the currentStatus of every case
\* the app holds, in memory or in a store, passes the eligibility check for that
\* case's own vehicle.
C29_StatusEligibleForOwnVehicle ==
    \A c \in AllCases : checkEligibility(c.currentStatus, currentYear, c.vehicle).ok

----------------------------------------------------------------------------
(* The frame of syncLocalToCloud *)

\* the keys localStorage holds
LocalAppraiserIds == {localStore.appraisers[i].id : i \in 1..Len(localStore.appraisers)}
LocalTechnicianIds == {localStore.technicians[i].id : i \in 1..Len(localStore.technicians)}
LocalStandardTypes == {localStore.standards[i].type : i \in 1..Len(localStore.standards)}
LocalCaseIds == {localCases[i].id : i \in 1..Len(localCases)}

\* C30: no step of syncLocalToCloud changes localStorage or removes a key from a
\* remote table; a remote record whose key (id, standard type, settings key) is
\* not in localStorage stays as it is; and without a configured remote store the
\* call returns success = false with count 0 and writes nothing.
C30_SyncFrame ==
    [][ /\ localStore' = localStore
        /\ localCases' = localCases
        /\ \A r \in remoteStore.appraisers : \E q \in remoteStore'.appraisers : q.id = r.id
        /\ \A r \in remoteStore.technicians : \E q \in remoteStore'.technicians : q.id = r.id
        /\ \A r \in remoteStore.standards : \E q \in remoteStore'.standards : q.type = r.type
        /\ \A r \in remoteCases : \E q \in remoteCases' : q.id = r.id
        /\ \A r \in remoteStore.appraisers : r.id \notin LocalAppraiserIds => r \in remoteStore'.appraisers
        /\ \A r \in remoteStore.technicians : r.id \notin LocalTechnicianIds => r \in remoteStore'.technicians
        /\ \A r \in remoteStore.standards : r.type \notin LocalStandardTypes => r \in remoteStore'.standards
        /\ \A r \in remoteCases : r.id \notin LocalCaseIds => r \in remoteCases'
        /\ localStore.brand = "null" => remoteStore'.settings = remoteStore.settings
        /\ ~IsRemote(gateway) =>
              /\ remoteStore' = remoteStore
              /\ remoteCases' = remoteCases
              /\ sync'.pc # "running"
              /\ sync'.pc = "returned" => ~sync'.success /\ sync'.count = 0
      ]_vars

\* C30 witness: a sync wrote records and returned while the remote tables hold an
\* appraiser and a case that localStorage does not hold
C30_Witness ==
    /\ sync.pc = "returned"
    /\ sync.count > 0
    /\ \E r \in remoteStore.appraisers : r.id \notin LocalAppraiserIds
    /\ \E r \in remoteCases : r.id \notin LocalCaseIds
    /\ localStore.brand = "null"
    /\ LocalAppraiserIds # {}

====
